---- MODULE Spec2Model ----
(***************************************************************************)
(* Imagefy backend: the Stripe webhook reconciler and the entitlement      *)
(* query/override routes of the Express server, over the Mongo `users`     *)
(* collection.  Every route handler is split at its `await`s: the part up  *)
(* to the first await is one action, and each later action is the          *)
(* resolution of one awaited call followed by the handler's code up to     *)
(* the next await or to its response.                                      *)
(***************************************************************************)
EXTENDS Integers, Sequences, FiniteSets, TLC

(***************************************************************************)
(* Bounds of the model.                                                    *)
(***************************************************************************)
\* number of requests the server may have suspended at an await at once
MaxInFlight == 2
\* number of requests the model follows from startup
MaxRequests == 3
\* number of distinct instants `new Date()` can return (1..MaxClock)
MaxClock == 2

(***************************************************************************)
(* Values.                                                                 *)
(***************************************************************************)
\* JavaScript null / undefined, and a field missing from a document
Null == "null"
\* a Date field missing from a document
NoDate == 0

\* strings are sequences of characters, so that includes(), trim() and
\* toUpperCase() are computed
EmailA == <<"a", "@", "x", ".", "c">>
EmailB == <<"b", "@", "x", ".", "c">>
EmailNoDot == <<"a", "@", "x">>
EmailNoAt == <<"a", ".", "c">>
NoString == << >>

\* emails a client may send; the payment processor knows EmailA
RequestEmails == {EmailA, EmailB, EmailNoDot, EmailNoAt, NoString}

\* rateLimit({ windowMs: 15 * 60 * 1000, max: 5, ... })
max == 5

\* client addresses the limiter keys on
ClientAddrs == {"ip1", "ip2"}

\* process.env.SECRET_CODE_1..3; an unset variable is the empty string here
EnvCodes == << <<"K", "1">>, NoString, <<"Z", "9">> >>

\* new Set([...].filter(Boolean))
SECRET_CODES == {EnvCodes[i] : i \in {j \in DOMAIN EnvCodes : EnvCodes[j] # NoString}}

\* codes a client may send: exact, padded lower case, wrong, blank, missing
RequestCodes ==
  { <<"K", "1">>, <<" ", "k", "1", " ">>, <<"z", "9">>, <<"K", "2">>, <<" ">>, NoString }

\* String.prototype.includes for a one-character needle
Includes(s, ch) == \E i \in DOMAIN s : s[i] = ch

\* String.prototype.trim
RECURSIVE TrimLeft(_)
TrimLeft(s) == IF s # << >> /\ Head(s) = " " THEN TrimLeft(Tail(s)) ELSE s

RECURSIVE TrimRight(_)
TrimRight(s) ==
  IF s # << >> /\ s[Len(s)] = " " THEN TrimRight(SubSeq(s, 1, Len(s) - 1)) ELSE s

trim(s) == TrimRight(TrimLeft(s))

\* String.prototype.toUpperCase on the model's alphabet
UpperChar(c) ==
  CASE c = "k" -> "K"
    [] c = "z" -> "Z"
    [] OTHER -> c

toUpperCase(s) == [i \in DOMAIN s |-> UpperChar(s[i])]

\* const normalizedCode = code.trim().toUpperCase()
normalizedCode(code) == toUpperCase(trim(code))

(***************************************************************************)
(* The payment processor as the server sees it.                            *)
(***************************************************************************)
Customers == {"cus_A", "cus_gone"}

\* customer.email of stripe.customers.retrieve(id); a deleted customer has none
CustomerEmail(c) ==
  CASE c = "cus_A" -> EmailA
    [] OTHER -> NoString

Statuses == {"active", "trialing", "past_due"}

Event(type, customer_email, details_email, customer, subscription, status) ==
  [type |-> type, customer_email |-> customer_email, details_email |-> details_email,
   customer |-> customer, subscription |-> subscription, status |-> status]

NoEvent == Event(Null, NoString, NoString, Null, Null, Null)

CheckoutEvents ==
  { Event("checkout.session.completed", EmailA, NoString, "cus_A", "sub_A", Null),
    Event("checkout.session.completed", NoString, EmailA, "cus_A", "sub_A", Null),
    Event("checkout.session.completed", NoString, NoString, "cus_gone", Null, Null) }

InvoiceEvents ==
  { Event("invoice.payment_succeeded", NoString, NoString, c, Null, Null) : c \in Customers }

UpdatedEvents ==
  { Event("customer.subscription.updated", NoString, NoString, c, Null, s) :
      c \in Customers, s \in Statuses }

DeletedEvents ==
  { Event("customer.subscription.deleted", NoString, NoString, c, Null, Null) :
      c \in Customers }

OtherEvents == { Event("charge.succeeded", NoString, NoString, "cus_A", Null, Null) }

Events == CheckoutEvents \cup InvoiceEvents \cup UpdatedEvents \cup DeletedEvents \cup OtherEvents

(***************************************************************************)
(* The `users` collection: email -> document.                              *)
(***************************************************************************)
\* a document with no field set but its key
EmptyDoc ==
  [isPro |-> FALSE, method |-> Null, subscriptionStatus |-> Null,
   stripeCustomerId |-> Null, subscriptionId |-> Null, lifetimeAccess |-> FALSE,
   cancelAtPeriodEnd |-> FALSE,
   activatedAt |-> NoDate, lastPayment |-> NoDate, updatedAt |-> NoDate,
   cancelledAt |-> NoDate, cancelRequestedAt |-> NoDate, codeUsedAt |-> NoDate]

\* { $set: fields }
Set(doc, fields) ==
  [f \in DOMAIN doc |-> IF f \in DOMAIN fields THEN fields[f] ELSE doc[f]]

\* { $unset: names }
Unset(doc, names) ==
  [f \in DOMAIN doc |-> IF f \in names THEN EmptyDoc[f] ELSE doc[f]]

\* variant: the upsert option is dropped
updateOne_NoUpsert(coll, email, fields, names, upsert) ==
  IF email \in DOMAIN coll
    THEN [coll EXCEPT ![email] = Unset(Set(@, fields), names)]
    ELSE coll

\* variant: every update is an upsert
updateOne_Upsert(coll, email, fields, names, upsert) ==
  [e \in DOMAIN coll \cup {email} |->
     IF e = email
       THEN Unset(Set(IF e \in DOMAIN coll THEN coll[e] ELSE EmptyDoc, fields), names)
       ELSE coll[e]]

\* collection.updateOne({ email }, { $set, $unset }, { upsert })
updateOne(coll, email, fields, names, upsert) ==
  IF email \in DOMAIN coll
    THEN [coll EXCEPT ![email] = Unset(Set(@, fields), names)]
    ELSE IF upsert
      THEN [e \in DOMAIN coll \cup {email} |->
              IF e = email THEN Unset(Set(EmptyDoc, fields), names) ELSE coll[e]]
      ELSE coll

\* collection.findOne({ email }) found a document
Found(coll, email) == email \in DOMAIN coll

VARIABLES
  db,        \* the shared handle: "unset" until MongoClient.connect resolves
  users,     \* the users collection
  clock,     \* what new Date() returns
  hits,      \* codeLimiter's counter per client address in the current window
  flagged,   \* subscriptions the processor has flagged cancel_at_period_end
  inflight,  \* the suspended handlers, by slot
  served,    \* how many requests have arrived
  redeemed,  \* history: the emails a redemption has completed for
  res        \* the response sent last

vars == <<db, users, clock, hits, flagged, inflight, served, redeemed, res>>

Slots == 1 .. MaxInFlight

\* a handler's locals that live across an await
Handler(op, pc, ev, email, ts, aux) ==
  [op |-> op, pc |-> pc, ev |-> ev, email |-> email, ts |-> ts, aux |-> aux]

Idle == Handler("idle", "idle", NoEvent, NoString, NoDate, Null)

NoResponse == [op |-> "none"]

Init ==
  /\ db = "unset"
  /\ users = [e \in {} |-> EmptyDoc]
  /\ clock = 1
  /\ hits = [a \in ClientAddrs |-> 0]
  /\ flagged = {}
  /\ inflight = [s \in Slots |-> Idle]
  /\ served = 0
  /\ redeemed = {}
  /\ res = NoResponse

\* the slot a new request takes
Free(s) == inflight[s] = Idle /\ \A t \in Slots : t < s => inflight[t] # Idle

\* the handler in slot s awaits, keeping h
Suspend(s, h) == inflight' = [inflight EXCEPT ![s] = h]

\* the handler in slot s sends r and returns
Respond(s, r) == /\ inflight' = [inflight EXCEPT ![s] = Idle]
                 /\ res' = r

Min(a, b) == IF a < b THEN a ELSE b

(***************************************************************************)
(* Startup.                                                                *)
(***************************************************************************)
\* MongoClient.connect(...).then(client => { db = client.db('imagefy') ... })
Connect ==
  /\ db = "unset"
  /\ db' = "connected"
  /\ UNCHANGED <<redeemed, served, users, clock, hits, flagged, inflight, res>>

\* time passes
Tick ==
  /\ clock < MaxClock
  /\ clock' = clock + 1
  /\ UNCHANGED <<redeemed, served, db, users, hits, flagged, inflight, res>>

\* the limiter's window of an address ends
WindowReset(a) ==
  /\ hits[a] > 0
  /\ hits' = [hits EXCEPT ![a] = 0]
  /\ UNCHANGED <<redeemed, served, db, users, clock, flagged, inflight, res>>

(***************************************************************************)
(* POST /webhook                                                           *)
(***************************************************************************)
Received == [op |-> "webhook", status |-> 200, received |-> TRUE]

\* const email = session.customer_email || session.customer_details?.email
SessionEmail(session) ==
  IF session.customer_email # NoString THEN session.customer_email
                                       ELSE session.details_email

\* variant: the checkout write without its provenance (as in the first server)
CheckoutSet_NoMethod(session, now) ==
  [isPro |-> TRUE, activatedAt |-> now,
   stripeCustomerId |-> session.customer, subscriptionId |-> session.subscription]

\* the $set of each write of the webhook
CheckoutSet(session, now) ==
  [isPro |-> TRUE, activatedAt |-> now, method |-> "stripe",
   stripeCustomerId |-> session.customer, subscriptionId |-> session.subscription]

\* variant: the invoice write without its provenance
InvoiceSet_NoMethod(invoice, now) ==
  [isPro |-> TRUE, lastPayment |-> now, stripeCustomerId |-> invoice.customer]

InvoiceSet(invoice, now) ==
  [isPro |-> TRUE, lastPayment |-> now, method |-> "stripe",
   stripeCustomerId |-> invoice.customer]

\* variant: a trial does not count as Pro
UpdatedIsPro_ActiveOnly(subscription) == subscription.status = "active"

\* const isPro = status === 'active' || status === 'trialing'
UpdatedIsPro(subscription) ==
  subscription.status = "active" \/ subscription.status = "trialing"

\* variant: the update also claims the record for the processor
UpdatedSet_Method(subscription, now) ==
  [isPro |-> UpdatedIsPro(subscription), subscriptionStatus |-> subscription.status,
   updatedAt |-> now, method |-> "stripe"]

UpdatedSet(subscription, now) ==
  [isPro |-> UpdatedIsPro(subscription), subscriptionStatus |-> subscription.status,
   updatedAt |-> now]

DeletedCodeSet(now) == [subscriptionStatus |-> "cancelled", cancelledAt |-> now]

\* variant: method is removed with the stale references
DeletedCodeUnset_Method == {"stripeCustomerId", "subscriptionId", "method"}

DeletedCodeUnset == {"stripeCustomerId", "subscriptionId"}

\* variant: the cancellation of a subscriber forgets isPro
DeletedStripeSet_KeepsPro(now) ==
  [cancelledAt |-> now, subscriptionStatus |-> "cancelled"]

DeletedStripeSet(now) ==
  [isPro |-> FALSE, cancelledAt |-> now, subscriptionStatus |-> "cancelled"]

\* variant: the cancellation does not look at the method (as before the
\* lifetime check was added)
KeepsPro_Never(coll, email) == FALSE

\* variant: any record found keeps its access
KeepsPro_AnyRecord(coll, email) == Found(coll, email)

\* if (user && user.method === 'secret_code')
KeepsPro(coll, email) == Found(coll, email) /\ coll[email].method = "secret_code"

\* variant: a request that fails verification is acknowledged like an event
WebhookBadSignature_Received(s) ==
  /\ Free(s)
  /\ res' = [op |-> "webhook", status |-> 200, received |-> TRUE]
  /\ UNCHANGED <<redeemed, db, users, clock, hits, flagged, inflight>>

\* constructEvent throws: 400, nothing else runs
WebhookBadSignature(s) ==
  /\ Free(s)
  /\ res' = [op |-> "webhook", status |-> 400, error |-> "Webhook Error"]
  /\ UNCHANGED <<redeemed, db, users, clock, hits, flagged, inflight>>

\* a verified event: the handler up to its first await
Webhook(s, ev) ==
  /\ Free(s)
  /\ UNCHANGED <<redeemed, db, users, clock, hits, flagged>>
  /\ CASE ev.type = "checkout.session.completed" ->
            IF SessionEmail(ev) # NoString /\ db # "unset"
              THEN /\ Suspend(s, Handler("webhook", "checkout_update", ev,
                                         SessionEmail(ev), clock, Null))
                   /\ UNCHANGED res
              ELSE Respond(s, Received)
       [] ev.type \in {"invoice.payment_succeeded", "customer.subscription.updated",
                       "customer.subscription.deleted"} ->
            /\ Suspend(s, Handler("webhook", "retrieve", ev, NoString, NoDate, Null))
            /\ UNCHANGED res
       [] OTHER -> Respond(s, Received)

\* stripe.customers.retrieve settles
WebhookRetrieved(s, ok) ==
  LET h == inflight[s]
      email == CustomerEmail(h.ev.customer)
  IN /\ h.op = "webhook" /\ h.pc = "retrieve"
     /\ UNCHANGED <<redeemed, served, db, users, clock, hits, flagged>>
     /\ IF ~ok \/ email = NoString \/ db = "unset"
          THEN Respond(s, Received)
          ELSE /\ UNCHANGED res
               /\ CASE h.ev.type = "invoice.payment_succeeded" ->
                         Suspend(s, Handler("webhook", "invoice_update", h.ev, email, clock, Null))
                    [] h.ev.type = "customer.subscription.updated" ->
                         Suspend(s, Handler("webhook", "updated_update", h.ev, email, clock, Null))
                    [] OTHER ->
                         Suspend(s, Handler("webhook", "deleted_find", h.ev, email, NoDate, Null))

\* the findOne of customer.subscription.deleted settles
WebhookFound(s, ok) ==
  LET h == inflight[s]
  IN /\ h.op = "webhook" /\ h.pc = "deleted_find"
     /\ UNCHANGED <<redeemed, served, db, users, clock, hits, flagged>>
     /\ IF ~ok
          THEN Respond(s, Received)
          ELSE /\ UNCHANGED res
               /\ IF KeepsPro(users, h.email)
                    THEN Suspend(s, Handler("webhook", "deleted_update_code", h.ev,
                                            h.email, clock, Null))
                    ELSE Suspend(s, Handler("webhook", "deleted_update_stripe", h.ev,
                                            h.email, clock, Null))

\* variant: the cancellation of a subscriber removes the document
WebhookWrite_DeleteOne(coll, h) ==
  CASE h.pc = "checkout_update" ->
         updateOne(coll, h.email, CheckoutSet(h.ev, h.ts), {}, TRUE)
    [] h.pc = "invoice_update" ->
         updateOne(coll, h.email, InvoiceSet(h.ev, h.ts), {}, TRUE)
    [] h.pc = "updated_update" ->
         updateOne(coll, h.email, UpdatedSet(h.ev, h.ts), {}, FALSE)
    [] h.pc = "deleted_update_code" ->
         updateOne(coll, h.email, DeletedCodeSet(h.ts), DeletedCodeUnset, FALSE)
    [] h.pc = "deleted_update_stripe" ->
         [e \in DOMAIN coll \ {h.email} |-> coll[e]]
    [] OTHER -> coll

\* variant: the cancellation's write looks at the method again when it is
\* applied
WebhookWrite_Recheck(coll, h) ==
  CASE h.pc = "checkout_update" ->
         updateOne(coll, h.email, CheckoutSet(h.ev, h.ts), {}, TRUE)
    [] h.pc = "invoice_update" ->
         updateOne(coll, h.email, InvoiceSet(h.ev, h.ts), {}, TRUE)
    [] h.pc = "updated_update" ->
         updateOne(coll, h.email, UpdatedSet(h.ev, h.ts), {}, FALSE)
    [] h.pc \in {"deleted_update_code", "deleted_update_stripe"} ->
         IF KeepsPro(coll, h.email)
           THEN updateOne(coll, h.email, DeletedCodeSet(h.ts), DeletedCodeUnset, FALSE)
           ELSE updateOne(coll, h.email, DeletedStripeSet(h.ts), {}, FALSE)
    [] OTHER -> coll

\* what the awaited updateOne of the webhook writes
WebhookWrite(coll, h) ==
  CASE h.pc = "checkout_update" ->
         updateOne(coll, h.email, CheckoutSet(h.ev, h.ts), {}, TRUE)
    [] h.pc = "invoice_update" ->
         updateOne(coll, h.email, InvoiceSet(h.ev, h.ts), {}, TRUE)
    [] h.pc = "updated_update" ->
         updateOne(coll, h.email, UpdatedSet(h.ev, h.ts), {}, FALSE)
    [] h.pc = "deleted_update_code" ->
         updateOne(coll, h.email, DeletedCodeSet(h.ts), DeletedCodeUnset, FALSE)
    [] h.pc = "deleted_update_stripe" ->
         updateOne(coll, h.email, DeletedStripeSet(h.ts), {}, FALSE)
    [] OTHER -> coll

WebhookUpdatePcs ==
  {"checkout_update", "invoice_update", "updated_update",
   "deleted_update_code", "deleted_update_stripe"}

\* variant: a write that failed is applied all the same (a retry)
WebhookUpdated_Retried(s, ok) ==
  LET h == inflight[s]
  IN /\ h.op = "webhook" /\ h.pc \in WebhookUpdatePcs
     /\ users' = WebhookWrite(users, h)
     /\ Respond(s, Received)
     /\ UNCHANGED <<redeemed, served, db, clock, hits, flagged>>

\* the updateOne of the webhook settles
WebhookUpdated(s, ok) ==
  LET h == inflight[s]
  IN /\ h.op = "webhook" /\ h.pc \in WebhookUpdatePcs
     /\ users' = IF ok THEN WebhookWrite(users, h) ELSE users
     /\ Respond(s, Received)
     /\ UNCHANGED <<redeemed, served, db, clock, hits, flagged>>

(***************************************************************************)
(* POST /check-pro                                                         *)
(***************************************************************************)
\* variant: a failed lookup is answered as the other routes answer it
NotPro_Error == [op |-> "check-pro", status |-> 500, isPro |-> FALSE]

NotPro == [op |-> "check-pro", status |-> 200, isPro |-> FALSE]

\* { isPro: user?.isPro || false, subscriptionStatus: ... || null, method: ... || null }
ProStatus(coll, email) ==
  [op |-> "check-pro", status |-> 200,
   isPro |-> IF Found(coll, email) THEN coll[email].isPro ELSE FALSE,
   subscriptionStatus |-> IF Found(coll, email) THEN coll[email].subscriptionStatus ELSE Null,
   method |-> IF Found(coll, email) THEN coll[email].method ELSE Null]

\* the handler up to its findOne
CheckPro(s, email) ==
  /\ Free(s)
  /\ UNCHANGED <<redeemed, db, users, clock, hits, flagged>>
  /\ IF email = NoString \/ db = "unset"
       THEN Respond(s, NotPro)
       ELSE /\ Suspend(s, Handler("check-pro", "find", NoEvent, email, NoDate, Null))
            /\ UNCHANGED res

\* the findOne settles
CheckProFound(s, ok) ==
  LET h == inflight[s]
  IN /\ h.op = "check-pro" /\ h.pc = "find"
     /\ Respond(s, IF ok THEN ProStatus(users, h.email) ELSE NotPro)
     /\ UNCHANGED <<redeemed, served, db, users, clock, hits, flagged>>

(***************************************************************************)
(* POST /verify-code, behind codeLimiter                                   *)
(***************************************************************************)
CodeResponse(status, success, message) ==
  [op |-> "verify-code", status |-> status, success |-> success, message |-> message]

Activated == [op |-> "verify-code", status |-> 200, success |-> TRUE, isPro |-> TRUE]

\* the limiter counts the request (the model stops counting past max + 1),
\* and passes it while the count is within max
Hit(a) == [hits EXCEPT ![a] = Min(@ + 1, max + 1)]

\* variant: the count is compared before the request is counted
Limited_Late(a) == hits[a] > max

Limited(a) == Hit(a)[a] > max

\* if (!email || !code)
MissingInput(email, code) == email = NoString \/ code = NoString

\* variant: only an email that lacks both characters is turned away
BadFormat_Both(email) == ~Includes(email, "@") /\ ~Includes(email, ".")

\* if (!email.includes('@') || !email.includes('.'))
BadFormat(email) == ~Includes(email, "@") \/ ~Includes(email, ".")

\* variant: any code that is not blank passes
ValidCode_NotBlank(code) == normalizedCode(code) # NoString

\* SECRET_CODES.has(normalizedCode)
ValidCode(code) == normalizedCode(code) \in SECRET_CODES

CodeSet(now) ==
  [isPro |-> TRUE, activatedAt |-> now, method |-> "secret_code",
   codeUsedAt |-> now, lifetimeAccess |-> TRUE]

\* the limiter and the handler up to its updateOne
VerifyCode(s, a, email, code) ==
  /\ Free(s)
  /\ hits' = Hit(a)
  /\ UNCHANGED <<redeemed, db, users, clock, flagged>>
  /\ CASE Limited(a) ->
            Respond(s, CodeResponse(429, FALSE, "Too many attempts, please try again later"))
       [] ~Limited(a) /\ MissingInput(email, code) ->
            Respond(s, CodeResponse(200, FALSE, "Email and code required"))
       [] ~Limited(a) /\ ~MissingInput(email, code) /\ BadFormat(email) ->
            Respond(s, CodeResponse(200, FALSE, "Invalid email format"))
       [] ~Limited(a) /\ ~MissingInput(email, code) /\ ~BadFormat(email)
            /\ ~ValidCode(code) ->
            Respond(s, CodeResponse(200, FALSE, "Invalid code"))
       [] OTHER ->
            IF db = "unset"
              THEN Respond(s, CodeResponse(200, FALSE, "Database error"))
              ELSE /\ Suspend(s, Handler("verify-code", "update", NoEvent, email, clock, Null))
                   /\ UNCHANGED res

\* the updateOne settles
VerifyCodeUpdated(s, ok) ==
  LET h == inflight[s]
  IN /\ h.op = "verify-code" /\ h.pc = "update"
     /\ users' = IF ok THEN updateOne(users, h.email, CodeSet(h.ts), {}, TRUE) ELSE users
     /\ redeemed' = IF ok THEN redeemed \cup {h.email} ELSE redeemed
     /\ Respond(s, IF ok THEN Activated ELSE CodeResponse(200, FALSE, "Database error"))
     /\ UNCHANGED <<served, db, clock, hits, flagged>>

(***************************************************************************)
(* POST /cancel-subscription                                               *)
(***************************************************************************)
CancelError(status, error) ==
  [op |-> "cancel-subscription", status |-> status, success |-> FALSE, error |-> error]

Cancelling(subscriptionId) ==
  [op |-> "cancel-subscription", status |-> 200, success |-> TRUE,
   periodEnd |-> subscriptionId]

\* variant: the request revokes access at once
CancelSet_Revokes(now) ==
  [subscriptionStatus |-> "cancelling", cancelRequestedAt |-> now,
   cancelAtPeriodEnd |-> TRUE, isPro |-> FALSE]

CancelSet(now) ==
  [subscriptionStatus |-> "cancelling", cancelRequestedAt |-> now,
   cancelAtPeriodEnd |-> TRUE]

\* variant: the lifetime check is missing
CodeUser_Never(user) == FALSE

\* if (user.method === 'secret_code')
CodeUser(user) == user.method = "secret_code"

\* the handler up to its findOne
CancelSubscription(s, email) ==
  /\ Free(s)
  /\ UNCHANGED <<redeemed, db, users, clock, hits, flagged>>
  /\ CASE email = NoString -> Respond(s, CancelError(400, "Email is required"))
       [] email # NoString /\ db = "unset" ->
            Respond(s, CancelError(500, "Failed to cancel subscription"))
       [] OTHER ->
            /\ Suspend(s, Handler("cancel-subscription", "find", NoEvent, email, NoDate, Null))
            /\ UNCHANGED res

\* the findOne settles: the checks on the document read
CancelFound(s, ok) ==
  LET h == inflight[s]
  IN /\ h.op = "cancel-subscription" /\ h.pc = "find"
     /\ UNCHANGED <<redeemed, served, db, users, clock, hits, flagged>>
     /\ CASE ~ok -> Respond(s, CancelError(500, "Failed to cancel subscription"))
          [] ok /\ ~Found(users, h.email) -> Respond(s, CancelError(404, "User not found"))
          [] ok /\ Found(users, h.email) /\ CodeUser(users[h.email]) ->
               Respond(s, CancelError(400, "You have lifetime Pro access via code"))
          [] ok /\ Found(users, h.email) /\ ~CodeUser(users[h.email])
               /\ users[h.email].subscriptionId = Null ->
               Respond(s, CancelError(404, "No active subscription found"))
          [] OTHER ->
               /\ Suspend(s, Handler("cancel-subscription", "stripe", NoEvent, h.email,
                                     NoDate, users[h.email].subscriptionId))
               /\ UNCHANGED res

\* variant: a failure of the processor call is swallowed and the handler
\* goes on to its write
CancelStripe_Swallowed(s, ok) ==
  LET h == inflight[s]
  IN /\ h.op = "cancel-subscription" /\ h.pc = "stripe"
     /\ UNCHANGED <<redeemed, served, db, users, clock, hits, res>>
     /\ flagged' = IF ok THEN flagged \cup {h.aux} ELSE flagged
     /\ Suspend(s, Handler("cancel-subscription", "update", NoEvent, h.email,
                           clock, h.aux))

\* stripe.subscriptions.update(subscriptionId, { cancel_at_period_end: true }) settles
CancelStripe(s, ok) ==
  LET h == inflight[s]
  IN /\ h.op = "cancel-subscription" /\ h.pc = "stripe"
     /\ UNCHANGED <<redeemed, served, db, users, clock, hits>>
     /\ IF ok
          THEN /\ flagged' = flagged \cup {h.aux}
               /\ Suspend(s, Handler("cancel-subscription", "update", NoEvent, h.email,
                                     clock, h.aux))
               /\ UNCHANGED res
          ELSE /\ UNCHANGED flagged
               /\ Respond(s, CancelError(500, "Failed to cancel subscription"))

\* variant: the write is conditional on the record still not being a
\* lifetime record
CancelUpdated_Recheck(s, ok) ==
  LET h == inflight[s]
      stale == Found(users, h.email) /\ CodeUser(users[h.email])
  IN /\ h.op = "cancel-subscription" /\ h.pc = "update"
     /\ users' = IF ok /\ ~stale
                   THEN updateOne(users, h.email, CancelSet(h.ts), {}, FALSE)
                   ELSE users
     /\ Respond(s, CASE ok /\ ~stale -> Cancelling(h.aux)
                      [] ok /\ stale ->
                           CancelError(400, "You have lifetime Pro access via code")
                      [] OTHER -> CancelError(500, "Failed to cancel subscription"))
     /\ UNCHANGED <<redeemed, served, db, clock, hits, flagged>>

\* the updateOne settles
CancelUpdated(s, ok) ==
  LET h == inflight[s]
  IN /\ h.op = "cancel-subscription" /\ h.pc = "update"
     /\ users' = IF ok THEN updateOne(users, h.email, CancelSet(h.ts), {}, FALSE) ELSE users
     /\ Respond(s, IF ok THEN Cancelling(h.aux)
                         ELSE CancelError(500, "Failed to cancel subscription"))
     /\ UNCHANGED <<redeemed, served, db, clock, hits, flagged>>

(***************************************************************************)
(* POST /create-portal-session                                             *)
(***************************************************************************)
PortalError(status, error) ==
  [op |-> "create-portal-session", status |-> status, error |-> error]

\* res.json({ url: session.url }); the url stands for the customer it is for
PortalUrl(stripeCustomerId) ==
  [op |-> "create-portal-session", status |-> 200, url |-> stripeCustomerId]

\* the handler up to its findOne
CreatePortalSession(s, email) ==
  /\ Free(s)
  /\ UNCHANGED <<redeemed, db, users, clock, hits, flagged>>
  /\ CASE email = NoString -> Respond(s, PortalError(400, "Email required"))
       [] email # NoString /\ db = "unset" ->
            Respond(s, PortalError(500, "error.message"))
       [] OTHER ->
            /\ Suspend(s, Handler("create-portal-session", "find", NoEvent, email,
                                  NoDate, Null))
            /\ UNCHANGED res

\* the findOne settles: the checks on the document read
PortalFound(s, ok) ==
  LET h == inflight[s]
  IN /\ h.op = "create-portal-session" /\ h.pc = "find"
     /\ UNCHANGED <<redeemed, served, db, users, clock, hits, flagged>>
     /\ CASE ~ok -> Respond(s, PortalError(500, "error.message"))
          [] ok /\ ~Found(users, h.email) -> Respond(s, PortalError(404, "User not found"))
          [] ok /\ Found(users, h.email) /\ CodeUser(users[h.email]) ->
               Respond(s, PortalError(400, "You have lifetime Pro access"))
          [] ok /\ Found(users, h.email) /\ ~CodeUser(users[h.email])
               /\ users[h.email].stripeCustomerId = Null ->
               Respond(s, PortalError(404, "No subscription found"))
          [] OTHER ->
               /\ Suspend(s, Handler("create-portal-session", "create", NoEvent, h.email,
                                     NoDate, users[h.email].stripeCustomerId))
               /\ UNCHANGED res

\* stripe.billingPortal.sessions.create settles
PortalCreated(s, ok) ==
  LET h == inflight[s]
  IN /\ h.op = "create-portal-session" /\ h.pc = "create"
     /\ UNCHANGED <<redeemed, served, db, users, clock, hits, flagged>>
     /\ Respond(s, IF ok THEN PortalUrl(h.aux) ELSE PortalError(500, "error.message"))

(***************************************************************************)
(* The server.                                                             *)
(***************************************************************************)
\* a request arrives, within the number of requests the model follows
Arrival == served < MaxRequests /\ served' = served + 1

\* any handlers interleave at their awaits
Next ==
  \/ Connect
  \/ Tick
  \/ \E a \in ClientAddrs : WindowReset(a)
  \/ Arrival /\ \E s \in Slots : WebhookBadSignature(s)
  \/ Arrival /\ \E s \in Slots, ev \in Events : Webhook(s, ev)
  \/ \E s \in Slots, ok \in BOOLEAN : WebhookRetrieved(s, ok)
  \/ \E s \in Slots, ok \in BOOLEAN : WebhookFound(s, ok)
  \/ \E s \in Slots, ok \in BOOLEAN : WebhookUpdated(s, ok)
  \/ Arrival /\ \E s \in Slots, email \in RequestEmails : CheckPro(s, email)
  \/ \E s \in Slots, ok \in BOOLEAN : CheckProFound(s, ok)
  \/ Arrival /\ \E s \in Slots, a \in ClientAddrs, email \in RequestEmails,
                   code \in RequestCodes : VerifyCode(s, a, email, code)
  \/ \E s \in Slots, ok \in BOOLEAN : VerifyCodeUpdated(s, ok)
  \/ Arrival /\ \E s \in Slots, email \in RequestEmails : CancelSubscription(s, email)
  \/ \E s \in Slots, ok \in BOOLEAN : CancelFound(s, ok)
  \/ \E s \in Slots, ok \in BOOLEAN : CancelStripe(s, ok)
  \/ \E s \in Slots, ok \in BOOLEAN : CancelUpdated(s, ok)
  \/ Arrival /\ \E s \in Slots, email \in RequestEmails : CreatePortalSession(s, email)
  \/ \E s \in Slots, ok \in BOOLEAN : PortalFound(s, ok)
  \/ \E s \in Slots, ok \in BOOLEAN : PortalCreated(s, ok)

Spec == Init /\ [][Next]_vars

\* one request at a time: a request arrives only when no handler is suspended;
\* redemptions come from one address
SeqAddrs == {"ip1"}

NextSeq ==
  \/ Connect
  \/ Tick
  \/ \E a \in SeqAddrs : WindowReset(a)
  \/ Arrival /\ WebhookBadSignature(1)
  \/ Arrival /\ \E ev \in Events : Webhook(1, ev)
  \/ \E ok \in BOOLEAN : WebhookRetrieved(1, ok)
  \/ \E ok \in BOOLEAN : WebhookFound(1, ok)
  \/ \E ok \in BOOLEAN : WebhookUpdated(1, ok)
  \/ Arrival /\ \E email \in RequestEmails : CheckPro(1, email)
  \/ \E ok \in BOOLEAN : CheckProFound(1, ok)
  \/ Arrival /\ \E a \in SeqAddrs, email \in RequestEmails, code \in RequestCodes :
                   VerifyCode(1, a, email, code)
  \/ \E ok \in BOOLEAN : VerifyCodeUpdated(1, ok)
  \/ Arrival /\ \E email \in RequestEmails : CancelSubscription(1, email)
  \/ \E ok \in BOOLEAN : CancelFound(1, ok)
  \/ \E ok \in BOOLEAN : CancelStripe(1, ok)
  \/ \E ok \in BOOLEAN : CancelUpdated(1, ok)
  \/ Arrival /\ \E email \in RequestEmails : CreatePortalSession(1, email)
  \/ \E ok \in BOOLEAN : PortalFound(1, ok)
  \/ \E ok \in BOOLEAN : PortalCreated(1, ok)

SpecSeq == Init /\ [][NextSeq]_vars

\* the redemption route and the checkout event, one request at a time and
\* any number of them, so that the limiter's window fills
NextCode ==
  \/ Connect
  \/ Tick
  \/ \E a \in SeqAddrs : WindowReset(a)
  \/ UNCHANGED served /\ \E ev \in CheckoutEvents : Webhook(1, ev)
  \/ \E ok \in BOOLEAN : WebhookUpdated(1, ok)
  \/ UNCHANGED served /\ \E a \in SeqAddrs, email \in RequestEmails, code \in RequestCodes :
                            VerifyCode(1, a, email, code)
  \/ \E ok \in BOOLEAN : VerifyCodeUpdated(1, ok)

SpecCode == Init /\ [][NextCode]_vars

\* the webhook route alone, one request at a time; every awaited call
\* settles (it resolves or it rejects), so a suspended handler resumes
NextHook ==
  \/ Connect
  \/ Tick
  \/ Arrival /\ WebhookBadSignature(1)
  \/ Arrival /\ \E ev \in Events : Webhook(1, ev)
  \/ \E ok \in BOOLEAN : WebhookRetrieved(1, ok)
  \/ \E ok \in BOOLEAN : WebhookFound(1, ok)
  \/ \E ok \in BOOLEAN : WebhookUpdated(1, ok)

Settles ==
  \/ \E ok \in BOOLEAN : WebhookRetrieved(1, ok)
  \/ \E ok \in BOOLEAN : WebhookFound(1, ok)
  \/ \E ok \in BOOLEAN : WebhookUpdated(1, ok)

SpecHook == Init /\ [][NextHook]_vars /\ WF_vars(Settles)

\* the redemption route behind its limiter: any number of requests from
\* either address, with a right or a wrong code, a good or a bad email
LimitEmails == {EmailA, EmailNoAt}

LimitCodes == {EnvCodes[1], <<"K", "2">>}

NextLimit ==
  \/ Connect
  \/ \E a \in ClientAddrs : WindowReset(a)
  \/ UNCHANGED served /\ \E a \in ClientAddrs, email \in LimitEmails, code \in LimitCodes :
                            VerifyCode(1, a, email, code)
  \/ \E ok \in BOOLEAN : VerifyCodeUpdated(1, ok)

SpecLimit == Init /\ [][NextLimit]_vars

\* the events and requests that write the record of one email, their
\* handlers interleaving at their awaits
RaceEvents ==
  { ev \in Events \ OtherEvents :
      /\ ev.customer_email = EmailA \/ ev.type # "checkout.session.completed"
      /\ ev.customer = "cus_A"
      /\ ev.status \in {Null, "past_due"} }

NextRace ==
  \/ Connect
  \/ Tick
  \/ Arrival /\ \E s \in Slots, ev \in RaceEvents : Webhook(s, ev)
  \/ \E s \in Slots, ok \in BOOLEAN : WebhookRetrieved(s, ok)
  \/ \E s \in Slots, ok \in BOOLEAN : WebhookFound(s, ok)
  \/ \E s \in Slots, ok \in BOOLEAN : WebhookUpdated(s, ok)
  \/ Arrival /\ \E s \in Slots, a \in SeqAddrs : VerifyCode(s, a, EmailA, EnvCodes[1])
  \/ \E s \in Slots, ok \in BOOLEAN : VerifyCodeUpdated(s, ok)
  \/ Arrival /\ \E s \in Slots : CancelSubscription(s, EmailA)
  \/ \E s \in Slots, ok \in BOOLEAN : CancelFound(s, ok)
  \/ \E s \in Slots, ok \in BOOLEAN : CancelStripe(s, ok)
  \/ \E s \in Slots, ok \in BOOLEAN : CancelUpdated(s, ok)

SpecRace == Init /\ [][NextRace]_vars

(***************************************************************************)
(* One delivery of a verified event, run to its response with every        *)
(* awaited call succeeding and no other handler in between.                *)
(***************************************************************************)
BillingEvents == CheckoutEvents \cup InvoiceEvents \cup UpdatedEvents \cup DeletedEvents

\* the email the handler keys its write on
EventEmail(ev) ==
  IF ev.type = "checkout.session.completed" THEN SessionEmail(ev)
                                            ELSE CustomerEmail(ev.customer)

\* the updateOne the handler reaches
DeliverPc(coll, ev) ==
  CASE EventEmail(ev) = NoString -> "none"
    [] EventEmail(ev) # NoString /\ ev.type = "checkout.session.completed" ->
         "checkout_update"
    [] EventEmail(ev) # NoString /\ ev.type = "invoice.payment_succeeded" ->
         "invoice_update"
    [] EventEmail(ev) # NoString /\ ev.type = "customer.subscription.updated" ->
         "updated_update"
    [] EventEmail(ev) # NoString /\ ev.type = "customer.subscription.deleted" ->
         IF KeepsPro(coll, EventEmail(ev)) THEN "deleted_update_code"
                                           ELSE "deleted_update_stripe"
    [] OTHER -> "none"

Deliver(coll, ev, now) ==
  WebhookWrite(coll, Handler("webhook", DeliverPc(coll, ev), ev, EventEmail(ev), now, Null))

\* the steps of the webhook handlers are those of Deliver: a handler writes
\* nothing before its updateOne, reaches the updateOne Deliver names unless
\* a call fails or the handle is unset, and writes what Deliver writes
DeliverSteps ==
  /\ \A s \in Slots : WebhookBadSignature(s) => users' = users
  /\ \A s \in Slots :
       (Free(s) /\ (res' = Received \/ inflight'[s].op = "webhook")) =>
         \A ev \in Events :
           Webhook(s, ev) =>
             /\ users' = users
             /\ (db = "connected" /\ DeliverPc(users, ev) # "none") => inflight'[s] # Idle
  /\ \A s \in Slots, ok \in BOOLEAN :
       WebhookRetrieved(s, ok) =>
         /\ users' = users
         /\ (ok /\ db = "connected" /\ DeliverPc(users, inflight[s].ev) # "none")
              => inflight'[s] # Idle
  /\ \A s \in Slots, ok \in BOOLEAN :
       WebhookFound(s, ok) =>
         /\ users' = users
         /\ ok => inflight'[s].pc = DeliverPc(users, inflight[s].ev)
  /\ \A s \in Slots : WebhookUpdated(s, FALSE) => users' = users
  /\ \A s \in Slots :
       WebhookUpdated(s, TRUE) =>
         users' = Deliver(users, inflight[s].ev, inflight[s].ts)

\* the step in which the handler of a customer.subscription.deleted event
\* in slot s has its updateOne applied
DeletedApplied(s) ==
  /\ inflight[s].ev.type = "customer.subscription.deleted"
  /\ WebhookUpdated(s, TRUE)

\* the informational Date fields the webhook refreshes
WebhookDates == {"activatedAt", "lastPayment", "cancelledAt", "updatedAt"}

WithoutDates(coll) ==
  [e \in DOMAIN coll |-> [f \in DOMAIN coll[e] \ WebhookDates |-> coll[e][f]]]

(***************************************************************************)
(* C1: a billing event never changes isPro to false on a record whose      *)
(* method is secret_code before the event's write.                         *)
(***************************************************************************)
C1_BillingKeepsCodePro ==
  [][ \A s \in Slots, ok \in BOOLEAN :
        WebhookUpdated(s, ok) =>
          \A e \in DOMAIN users :
            (users[e].method = "secret_code" /\ users[e].isPro) => users'[e].isPro
    ]_vars

(***************************************************************************)
(* C2: once a valid redemption has completed for an email, no later        *)
(* customer.subscription.deleted event for that email turns isPro false,   *)
(* whatever billing events came in between.                                *)
(***************************************************************************)
C2_RedeemedSurvivesDeleted ==
  [][ \A s \in Slots :
        (DeletedApplied(s) /\ inflight[s].email \in redeemed
           /\ users[inflight[s].email].isPro)
          => users'[inflight[s].email].isPro
    ]_vars

(***************************************************************************)
(* C3: customer.subscription.deleted applied, with no other handler in     *)
(* between, to a record with method secret_code and isPro true leaves      *)
(* isPro true and method secret_code, sets subscriptionStatus cancelled    *)
(* and removes stripeCustomerId and subscriptionId.                        *)
(***************************************************************************)
C3_DeletedKeepsCodeAccess ==
  [][ /\ DeliverSteps
      /\ \A s \in Slots :
           LET e == inflight[s].email
           IN (DeletedApplied(s) /\ Found(users, e)
                 /\ users[e].method = "secret_code" /\ users[e].isPro)
                => /\ users'[e].isPro
                   /\ users'[e].method = "secret_code"
                   /\ users'[e].subscriptionStatus = "cancelled"
                   /\ users'[e].stripeCustomerId = Null
                   /\ users'[e].subscriptionId = Null
    ]_vars

\* a lifetime record that once held a customer reference (lastPayment is
\* written together with stripeCustomerId) has been through the cancellation
C3_Witness ==
  /\ res = Received
  /\ \E e \in DOMAIN users :
       /\ users[e].method = "secret_code" /\ users[e].isPro
       /\ users[e].lastPayment # NoDate
       /\ users[e].subscriptionStatus = "cancelled"
       /\ users[e].cancelledAt # NoDate
       /\ users[e].stripeCustomerId = Null

(***************************************************************************)
(* C4: customer.subscription.deleted applied, with no other handler in     *)
(* between, to an existing record with method stripe sets isPro false and  *)
(* subscriptionStatus cancelled and leaves method, stripeCustomerId and    *)
(* subscriptionId as they were.                                            *)
(***************************************************************************)
C4_DeletedRevokesStripe ==
  [][ /\ DeliverSteps
      /\ \A s \in Slots :
           LET e == inflight[s].email
           IN (DeletedApplied(s) /\ Found(users, e) /\ users[e].method = "stripe")
                => /\ ~users'[e].isPro
                   /\ users'[e].subscriptionStatus = "cancelled"
                   /\ users'[e].method = "stripe"
                   /\ users'[e].stripeCustomerId = users[e].stripeCustomerId
                   /\ users'[e].subscriptionId = users[e].subscriptionId
    ]_vars

C4_Witness ==
  /\ res = Received
  /\ \E e \in DOMAIN users :
       /\ users[e].method = "stripe" /\ ~users[e].isPro
       /\ users[e].subscriptionStatus = "cancelled"
       /\ users[e].cancelledAt # NoDate
       /\ users[e].stripeCustomerId # Null
       /\ users[e].subscriptionId # Null

(***************************************************************************)
(* C5: for each of the four event types and every store, delivering the    *)
(* same verified event twice in succession leaves the store as delivering  *)
(* it once does, the Date fields activatedAt, lastPayment, cancelledAt     *)
(* and updatedAt aside.                                                    *)
(***************************************************************************)
C5_RedeliveryIdempotent ==
  (\A s \in Slots : inflight[s] = Idle) =>
    \A ev \in BillingEvents, later \in clock .. MaxClock :
      LET once == Deliver(users, ev, clock)
      IN WithoutDates(Deliver(once, ev, later)) = WithoutDates(once)

\* the store holds the effect of a cancellation that spared a lifetime
\* record, and a second delivery of that event now would change Date fields
\* and nothing else
C5_Witness ==
  /\ res = Received
  /\ \A s \in Slots : inflight[s] = Idle
  /\ \E ev \in DeletedEvents :
       /\ KeepsPro(users, EventEmail(ev))
       /\ users[EventEmail(ev)].subscriptionStatus = "cancelled"
       /\ Deliver(users, ev, clock) # users
       /\ WithoutDates(Deliver(users, ev, clock)) = WithoutDates(users)

(***************************************************************************)
(* C6: a verify-code request whose normalized code is not a configured     *)
(* code is answered success=false, writes no document and leaves no write  *)
(* pending, whatever the email, the store and the requests before it.      *)
(***************************************************************************)
C6_InvalidCodeNoWrite ==
  [][ \A s \in Slots :
        (Free(s) /\ (res'.op = "verify-code" \/ inflight'[s].op = "verify-code")) =>
          \A a \in ClientAddrs, email \in RequestEmails, code \in RequestCodes :
            (normalizedCode(code) \notin SECRET_CODES /\ VerifyCode(s, a, email, code))
              => /\ res'.op = "verify-code"
                 /\ res'.success = FALSE
                 /\ users' = users
                 /\ inflight' = inflight
    ]_vars

\* a wrong code has just been turned away, as the last request the limiter
\* admits in its window, with a subscriber's and a lifetime record in the store
C6_Witness ==
  /\ res = CodeResponse(200, FALSE, "Invalid code")
  /\ \E a \in SeqAddrs : hits[a] = max
  /\ \E e, f \in DOMAIN users :
       users[e].method = "stripe" /\ users[f].method = "secret_code"

\* an email that passes the format check of the route
WellFormed(email) == Includes(email, "@") /\ Includes(email, ".")

\* the record the redemption leaves
Granted(coll, email) ==
  /\ Found(coll, email)
  /\ coll[email].isPro
  /\ coll[email].method = "secret_code"
  /\ coll[email].lifetimeAccess

(***************************************************************************)
(* C7, as stated: a verify-code request with a well-formed email and a     *)
(* code that is configured after trim and upper-casing is answered         *)
(* success=true, isPro=true and leaves a record with isPro, method         *)
(* secret_code and lifetimeAccess, created if missing.                     *)
(***************************************************************************)
C7_ValidCodeGrants ==
  [][ /\ \A s \in Slots :
           (Free(s) /\ (res'.op = "verify-code" \/ inflight'[s].op = "verify-code")) =>
             \A a \in ClientAddrs, email \in RequestEmails, code \in RequestCodes :
               (WellFormed(email) /\ normalizedCode(code) \in SECRET_CODES
                  /\ VerifyCode(s, a, email, code))
                 => inflight'[s].op = "verify-code"
      /\ \A s \in Slots, ok \in BOOLEAN :
           VerifyCodeUpdated(s, ok) =>
             /\ res'.success /\ res'.isPro
             /\ Granted(users', inflight[s].email)
    ]_vars

(***************************************************************************)
(* C7, amended: such a request is answered with the grant, and leaves the  *)
(* record, when the limiter admits it, the datastore handle is set and the *)
(* upsert succeeds; otherwise it is answered success=false and no document *)
(* is written. No other document changes either way.                       *)
(***************************************************************************)
C7_ValidCodeGrantsWhenStored ==
  [][ /\ \A s \in Slots :
           (Free(s) /\ (res'.op = "verify-code" \/ inflight'[s].op = "verify-code")) =>
             \A a \in ClientAddrs, email \in RequestEmails, code \in RequestCodes :
               (WellFormed(email) /\ normalizedCode(code) \in SECRET_CODES
                  /\ VerifyCode(s, a, email, code))
                 => /\ users' = users
                    /\ IF hits[a] < max /\ db = "connected"
                         THEN /\ inflight'[s].op = "verify-code"
                              /\ inflight'[s].email = email
                         ELSE /\ inflight'[s] = Idle
                              /\ res'.success = FALSE
      /\ \A s \in Slots :
           VerifyCodeUpdated(s, TRUE) =>
             /\ res'.status = 200 /\ res'.success /\ res'.isPro
             /\ Granted(users', inflight[s].email)
             /\ \A e \in DOMAIN users' \ {inflight[s].email} :
                  e \in DOMAIN users /\ users'[e] = users[e]
      /\ \A s \in Slots :
           VerifyCodeUpdated(s, FALSE) => res'.success = FALSE /\ users' = users
    ]_vars

\* the last request the limiter admits in a window has just turned a
\* subscriber's record into a lifetime record, after a grant that created one
C7_Witness ==
  /\ res = Activated
  /\ Granted(users, EmailB)
  /\ Granted(users, EmailA) /\ users[EmailA].subscriptionId # Null
  /\ users[EmailA].codeUsedAt > users[EmailB].codeUsedAt
  /\ \E a \in SeqAddrs : hits[a] = max

(***************************************************************************)
(* C8: check-pro never answers with an error: it answers isPro=false       *)
(* without a lookup when the email is missing, isPro=false when no record  *)
(* exists or the lookup fails, and otherwise the record's isPro,           *)
(* subscriptionStatus and method.                                          *)
(***************************************************************************)
C8_QueryDegrades ==
  [][ /\ \A s \in Slots :
           (Free(s) /\ (res'.op = "check-pro" \/ inflight'[s].op = "check-pro")) =>
             \A email \in RequestEmails :
               CheckPro(s, email) =>
                 /\ users' = users
                 /\ email = NoString => inflight'[s] = Idle
                 /\ inflight'[s] = Idle => (res'.status = 200 /\ res'.isPro = FALSE)
      /\ \A s \in Slots, ok \in BOOLEAN :
           CheckProFound(s, ok) =>
             LET e == inflight[s].email
             IN /\ users' = users
                /\ res'.op = "check-pro" /\ res'.status = 200
                /\ IF ok /\ Found(users, e)
                     THEN /\ res'.isPro = users[e].isPro
                          /\ res'.subscriptionStatus = users[e].subscriptionStatus
                          /\ res'.method = users[e].method
                     ELSE res'.isPro = FALSE
    ]_vars

\* a stored record's three fields have just been returned
C8_Witness ==
  /\ res.op = "check-pro"
  /\ \E e \in DOMAIN users :
       /\ users[e].isPro /\ users[e].subscriptionStatus = "trialing"
       /\ res = [op |-> "check-pro", status |-> 200, isPro |-> TRUE,
                 subscriptionStatus |-> "trialing", method |-> users[e].method]

(***************************************************************************)
(* C9: cancel-subscription calls the payment processor only when the       *)
(* record it read exists, has a method other than secret_code and has a    *)
(* subscriptionId; otherwise it answers success=false, calls nothing and   *)
(* writes nothing.                                                         *)
(***************************************************************************)
C9_CancelCallsProcessorOnlyForSubscribers ==
  [][ /\ \A s \in Slots, ok \in BOOLEAN :
           CancelFound(s, ok) =>
             LET e == inflight[s].email
             IN /\ users' = users /\ flagged' = flagged
                /\ IF ok /\ Found(users, e) /\ users[e].method # "secret_code"
                        /\ users[e].subscriptionId # Null
                     THEN /\ inflight'[s].pc = "stripe"
                          /\ inflight'[s].aux = users[e].subscriptionId
                     ELSE /\ inflight'[s] = Idle
                          /\ res'.op = "cancel-subscription"
                          /\ res'.success = FALSE
      /\ \A s \in Slots :
           (inflight'[s].pc = "stripe" /\ inflight[s].pc # "stripe") =>
             CancelFound(s, TRUE)
      /\ flagged' # flagged =>
           \E s \in Slots : inflight[s].pc = "stripe" /\ CancelStripe(s, TRUE)
    ]_vars

\* a lifetime user who still holds a subscriptionId has just been refused
C9_Witness ==
  /\ res = CancelError(400, "You have lifetime Pro access via code")
  /\ flagged = {}
  /\ \E e \in DOMAIN users :
       users[e].method = "secret_code" /\ users[e].subscriptionId # Null

\* the three deliveries, from the store of the current state
Scenario ==
  (\A s \in Slots : inflight[s] = Idle) =>
    \A checkout \in CheckoutEvents, invoice \in InvoiceEvents, deleted \in DeletedEvents :
      LET e == EventEmail(checkout)
      IN (e # NoString /\ ~Found(users, e)
            /\ EventEmail(invoice) = e /\ EventEmail(deleted) = e) =>
           \A t \in clock .. MaxClock :
             LET first  == Deliver(users, checkout, clock)
                 second == Deliver(first, invoice, t)
                 third  == Deliver(second, deleted, MaxClock)
             IN /\ Found(first, e) /\ first[e].isPro /\ first[e].method = "stripe"
                /\ second[e].isPro /\ second[e].method = "stripe"
                /\ ~third[e].isPro

(***************************************************************************)
(* C10: checkout.session.completed for email e, then                       *)
(* invoice.payment_succeeded and customer.subscription.deleted for the     *)
(* customer whose email is e, delivered in that order to a store with no   *)
(* record for e and nothing else touching e in between: the first leaves   *)
(* isPro true and method stripe, the second keeps both, the third leaves   *)
(* isPro false.                                                            *)
(***************************************************************************)
C10_CheckoutInvoiceDeleted == [][DeliverSteps]_vars /\ []Scenario

\* the three events have been delivered and nothing else has happened
C10_Witness ==
  /\ served = 3 /\ res = Received
  /\ \E e \in DOMAIN users :
       /\ users[e].method = "stripe" /\ ~users[e].isPro
       /\ users[e].activatedAt # NoDate /\ users[e].lastPayment # NoDate
       /\ users[e].subscriptionStatus = "cancelled"
       /\ users[e].subscriptionId # Null

\* a step of the webhook handler in slot s sends nothing and stays suspended,
\* or sends 200 {received: true} and returns
AwaitsOrReceived(s) ==
  \/ inflight'[s].op = "webhook" /\ res' = res
  \/ inflight'[s] = Idle /\ res' = Received

(***************************************************************************)
(* C11: every webhook request gets exactly one response: 400 when, and     *)
(* only when, signature verification fails; 200 {received: true} for every *)
(* verified event, an unrecognised type, an event with no resolvable email *)
(* and a failed processor lookup or datastore write included.              *)
(***************************************************************************)
C11_WebhookAnswered ==
  /\ [][ /\ \A s \in Slots :
              WebhookBadSignature(s) =>
                res'.op = "webhook" /\ res'.status = 400 /\ inflight' = inflight
         /\ \A s \in Slots :
              (Free(s) /\ (res' = Received \/ inflight'[s].op = "webhook")) =>
                \A ev \in Events : Webhook(s, ev) => AwaitsOrReceived(s)
         /\ \A s \in Slots, ok \in BOOLEAN :
              (WebhookRetrieved(s, ok) \/ WebhookFound(s, ok) \/ WebhookUpdated(s, ok))
                => AwaitsOrReceived(s)
       ]_vars
  /\ \A s \in Slots :
       (inflight[s].op = "webhook") ~> (inflight[s] = Idle /\ res = Received)

\* the last of the requests was a verified event, answered 200, and nothing
\* has been stored although the datastore is connected
C11_Witness ==
  /\ res = Received
  /\ served = MaxRequests
  /\ db = "connected"
  /\ DOMAIN users = {}
  /\ clock = MaxClock

(***************************************************************************)
(* C12: a webhook request that fails signature verification, and a         *)
(* verified event discarded because no email is resolvable, the customer   *)
(* lookup fails or the datastore call fails, leave every record unchanged  *)
(* and leave nothing pending: the store changes only by the write of a     *)
(* handler that is suspended at its updateOne, so a discarded event is     *)
(* never applied later.                                                    *)
(***************************************************************************)
C12_DiscardedLeavesStore ==
  [][ /\ \A s \in Slots :
           WebhookBadSignature(s) => users' = users /\ inflight' = inflight
      /\ \A s \in Slots :
           (Free(s) /\ res' = Received) =>
             \A ev \in CheckoutEvents :
               (SessionEmail(ev) = NoString /\ Webhook(s, ev))
                 => users' = users /\ inflight' = inflight
      /\ \A s \in Slots, ok \in BOOLEAN :
           (WebhookRetrieved(s, ok)
              /\ (~ok \/ CustomerEmail(inflight[s].ev.customer) = NoString))
             => users' = users /\ inflight'[s] = Idle
      /\ \A s \in Slots :
           (WebhookFound(s, FALSE) \/ WebhookUpdated(s, FALSE))
             => users' = users /\ inflight'[s] = Idle
      /\ users' # users =>
           \E s \in Slots :
             /\ inflight[s].pc \in WebhookUpdatePcs \cup {"update"}
             /\ inflight'[s] = Idle
             /\ inflight[s].op = "webhook" => users' = WebhookWrite(users, inflight[s])
    ]_vars

\* a request that failed verification has just been turned away with
\* records in the store
C12_Witness ==
  /\ res.op = "webhook" /\ res.status = 400
  /\ served = MaxRequests
  /\ \E e \in DOMAIN users : users[e].method = "stripe" /\ users[e].isPro

\* the step in which the handler of a customer.subscription.updated event
\* in slot s has its updateOne applied
UpdatedApplied(s) ==
  /\ inflight[s].ev.type = "customer.subscription.updated"
  /\ WebhookUpdated(s, TRUE)

(***************************************************************************)
(* C13: customer.subscription.updated applied to an existing record sets   *)
(* isPro to true exactly when the event's status is active or trialing,    *)
(* sets subscriptionStatus to that status, and leaves method,              *)
(* stripeCustomerId, subscriptionId and lifetimeAccess unchanged.          *)
(***************************************************************************)
C13_UpdatedSetsStatus ==
  [][ \A s \in Slots :
        LET e == inflight[s].email
            status == inflight[s].ev.status
        IN (UpdatedApplied(s) /\ Found(users, e)) =>
             /\ users'[e].isPro = (status \in {"active", "trialing"})
             /\ users'[e].subscriptionStatus = status
             /\ users'[e].method = users[e].method
             /\ users'[e].stripeCustomerId = users[e].stripeCustomerId
             /\ users'[e].subscriptionId = users[e].subscriptionId
             /\ users'[e].lifetimeAccess = users[e].lifetimeAccess
    ]_vars

\* a subscriber's record has been through an update to a status that is
\* neither active nor trialing
C13_Witness ==
  /\ res = Received
  /\ \E e \in DOMAIN users :
       /\ users[e].subscriptionStatus = "past_due" /\ ~users[e].isPro
       /\ users[e].updatedAt # NoDate
       /\ users[e].method = "stripe" /\ users[e].subscriptionId # Null

(***************************************************************************)
(* C14: customer.subscription.updated and customer.subscription.deleted    *)
(* never create a record: delivered for an email that has no record, no    *)
(* step of the handler changes the store.                                  *)
(***************************************************************************)
C14_UpdatedDeletedNeverCreate ==
  [][ /\ \A s \in Slots :
           (Free(s) /\ inflight'[s].op = "webhook") =>
             \A ev \in UpdatedEvents \cup DeletedEvents :
               Webhook(s, ev) => users' = users
      /\ \A s \in Slots, ok \in BOOLEAN :
           ( /\ inflight[s].ev \in UpdatedEvents \cup DeletedEvents
             /\ ~Found(users, EventEmail(inflight[s].ev))
             /\ (WebhookRetrieved(s, ok) \/ WebhookFound(s, ok) \/ WebhookUpdated(s, ok)) )
             => users' = users
    ]_vars

\* the updateOne of such an event is in flight for an email that has no
\* record, next to the record of another email
C14_Witness ==
  /\ DOMAIN users # {}
  /\ \E s \in Slots :
       /\ inflight[s].pc \in {"updated_update", "deleted_update_stripe"}
       /\ ~Found(users, inflight[s].email)

(***************************************************************************)
(* C15: in every reachable state a record with lifetimeAccess true has     *)
(* method secret_code.                                                     *)
(***************************************************************************)
C15_LifetimeIsCode ==
  \A e \in DOMAIN users : users[e].lifetimeAccess => users[e].method = "secret_code"

(***************************************************************************)
(* C16: in every reachable state a record that has a stripeCustomerId or a *)
(* subscriptionId has method stripe.                                       *)
(***************************************************************************)
C16_StripeIdsAreStripe ==
  \A e \in DOMAIN users :
    (users[e].stripeCustomerId # Null \/ users[e].subscriptionId # Null)
      => users[e].method = "stripe"

(***************************************************************************)
(* C17: a record is never deleted: an email that has a record in some      *)
(* state has one in every later state, whatever events and requests        *)
(* follow.                                                                 *)
(***************************************************************************)
C17_NeverDeleted == [][DOMAIN users \subseteq DOMAIN users']_vars

\* a record is still there after its subscription was cancelled and every
\* request the model follows has been served
C17_Witness ==
  /\ served = MaxRequests
  /\ \A s \in Slots : inflight[s] = Idle
  /\ \E e \in DOMAIN users :
       users[e].subscriptionStatus = "cancelled" /\ ~users[e].isPro

(***************************************************************************)
(* C18, as stated: a record for an email comes into existence only by the  *)
(* write of a checkout.session.completed event with a resolvable email or  *)
(* of a valid verify-code request for that email; no other event or        *)
(* request creates one.                                                    *)
(***************************************************************************)
C18_CreatedByCheckoutOrRedeem ==
  [][ \A e \in DOMAIN users' \ DOMAIN users :
        \E s \in Slots :
          /\ inflight[s].email = e /\ e # NoString
          /\ \/ /\ inflight[s].ev.type = "checkout.session.completed"
                /\ WebhookUpdated(s, TRUE)
             \/ VerifyCodeUpdated(s, TRUE)
    ]_vars

(***************************************************************************)
(* C18, amended: a record for an email comes into existence only by the    *)
(* write of a checkout.session.completed event with a resolvable email, of *)
(* an invoice.payment_succeeded event whose customer has that email, or of *)
(* a valid verify-code request for that email; no other event or request   *)
(* creates one.                                                            *)
(***************************************************************************)
C18_CreatedByGrant ==
  [][ \A e \in DOMAIN users' \ DOMAIN users :
        \E s \in Slots :
          /\ inflight[s].email = e /\ e # NoString
          /\ \/ /\ inflight[s].ev.type = "checkout.session.completed"
                /\ e = SessionEmail(inflight[s].ev)
                /\ WebhookUpdated(s, TRUE)
             \/ /\ inflight[s].ev.type = "invoice.payment_succeeded"
                /\ e = CustomerEmail(inflight[s].ev.customer)
                /\ WebhookUpdated(s, TRUE)
             \/ /\ WellFormed(e)
                /\ VerifyCodeUpdated(s, TRUE)
    ]_vars

\* a record that only an invoice has written (no checkout, no redemption)
\* next to one that a redemption created
C18_Witness ==
  \E e, f \in DOMAIN users :
    /\ users[e].lastPayment # NoDate /\ users[e].activatedAt = NoDate
    /\ users[e].method = "stripe"
    /\ f # e /\ users[f].method = "secret_code"

\* the step in which the handler in slot s has a grant write applied, and
\* the mechanism of that grant
GrantApplied(s, mechanism) ==
  \/ /\ mechanism = "stripe"
     /\ inflight[s].ev.type \in {"checkout.session.completed", "invoice.payment_succeeded"}
     /\ WebhookUpdated(s, TRUE)
  \/ /\ mechanism = "secret_code"
     /\ VerifyCodeUpdated(s, TRUE)

(***************************************************************************)
(* C19: the method of a record is the mechanism of the grant write applied *)
(* last for its email: every record has a method, a grant write leaves its *)
(* own mechanism (stripe for checkout and invoice, secret_code for a       *)
(* redemption), and no other step (customer.subscription.updated,          *)
(* customer.subscription.deleted and cancel-subscription included) changes *)
(* the method of any record.                                               *)
(***************************************************************************)
C19_MethodIsLastGrant ==
  /\ [](\A e \in DOMAIN users : users[e].method \in {"stripe", "secret_code"})
  /\ [][ \A e \in DOMAIN users' :
           \/ \E s \in Slots, mechanism \in {"stripe", "secret_code"} :
                /\ inflight[s].email = e
                /\ GrantApplied(s, mechanism)
                /\ users'[e].method = mechanism
           \/ /\ e \in DOMAIN users /\ users'[e].method = users[e].method
              /\ \A s \in Slots, mechanism \in {"stripe", "secret_code"} :
                   ~(inflight[s].email = e /\ GrantApplied(s, mechanism))
       ]_vars

\* a record an invoice wrote, then a redemption, then an update: the method
\* is that of the redemption
C19_Witness ==
  \E e \in DOMAIN users :
    /\ users[e].method = "secret_code"
    /\ users[e].lastPayment # NoDate /\ users[e].stripeCustomerId # Null
    /\ users[e].updatedAt # NoDate
    /\ users[e].codeUsedAt # NoDate

(***************************************************************************)
(* C20: a successful cancel-subscription sets subscriptionStatus           *)
(* cancelling on the record and answers success=true with a period end,    *)
(* and its write changes neither isPro, method, stripeCustomerId nor       *)
(* subscriptionId, nor any other record, whatever other handlers ran       *)
(* between its awaits.                                                     *)
(***************************************************************************)
C20_CancelWriteFrame ==
  [][ \A s \in Slots :
        LET e == inflight[s].email
        IN CancelUpdated(s, TRUE) =>
             /\ res'.op = "cancel-subscription" /\ res'.status = 200 /\ res'.success
             /\ "periodEnd" \in DOMAIN res'
             /\ Found(users, e) /\ DOMAIN users' = DOMAIN users
             /\ users'[e].subscriptionStatus = "cancelling"
             /\ users'[e].isPro = users[e].isPro
             /\ users'[e].method = users[e].method
             /\ users'[e].stripeCustomerId = users[e].stripeCustomerId
             /\ users'[e].subscriptionId = users[e].subscriptionId
             /\ \A f \in DOMAIN users \ {e} : users'[f] = users[f]
    ]_vars

\* the cancellation has just succeeded on a record that a redemption turned
\* into a lifetime record after the handler had read it
C20_Witness ==
  /\ res.op = "cancel-subscription" /\ res.success
  /\ \E e \in DOMAIN users :
       /\ users[e].subscriptionStatus = "cancelling"
       /\ users[e].cancelRequestedAt # NoDate
       /\ users[e].method = "secret_code" /\ users[e].isPro

(***************************************************************************)
(* C21: when the processor call of cancel-subscription fails, the request  *)
(* is answered with a server error and success=false, and no record        *)
(* changes: subscriptionStatus is not set to cancelling and no write is    *)
(* left pending.                                                           *)
(***************************************************************************)
C21_ProcessorFailureIsServerError ==
  [][ \A s \in Slots :
        CancelStripe(s, FALSE) =>
          /\ res'.op = "cancel-subscription" /\ res'.status = 500
          /\ res'.success = FALSE
          /\ users' = users
          /\ inflight'[s] = Idle
          /\ flagged' = flagged
    ]_vars

\* a subscriber's cancellation has just been answered 500 with the
\* subscription not flagged and the record not marked
C21_Witness ==
  /\ res = CancelError(500, "Failed to cancel subscription")
  /\ flagged = {}
  /\ \A s \in Slots : inflight[s] = Idle
  /\ \E e \in DOMAIN users :
       /\ users[e].method = "stripe" /\ users[e].subscriptionId # Null
       /\ users[e].subscriptionStatus # "cancelling"
       /\ users[e].cancelRequestedAt = NoDate

(***************************************************************************)
(* C22: for each client address, the requests to verify-code that reach    *)
(* the handler in one window are those counted 1 to 5; every further       *)
(* request of that address in the window is answered 429 with              *)
(* success=false, writes nothing and leaves nothing pending, a valid code  *)
(* included; the count of an address changes only by its own requests and  *)
(* by the end of its window.                                               *)
(***************************************************************************)
C22_LimiterCeiling ==
  [][ /\ \A s \in Slots :
           (Free(s) /\ (res'.op = "verify-code" \/ inflight'[s].op = "verify-code")) =>
             \A a \in ClientAddrs, email \in LimitEmails, code \in LimitCodes :
               VerifyCode(s, a, email, code) =>
                 /\ \A b \in ClientAddrs \ {a} : hits'[b] = hits[b]
                 /\ IF hits[a] < max
                      THEN /\ hits'[a] = hits[a] + 1
                           /\ \/ inflight'[s].op = "verify-code"
                              \/ res'.op = "verify-code" /\ res'.status = 200
                      ELSE /\ res'.op = "verify-code" /\ res'.status = 429
                           /\ res'.success = FALSE
                           /\ users' = users
                           /\ inflight' = inflight
      /\ \A a \in ClientAddrs : hits'[a] < hits[a] => WindowReset(a)
    ]_vars

\* an address has just been refused while the other is within its window
\* and a redemption has been granted
C22_Witness ==
  /\ res = CodeResponse(429, FALSE, "Too many attempts, please try again later")
  /\ \E a, b \in ClientAddrs : hits[a] > max /\ hits[b] \in 1 .. max - 1
  /\ Granted(users, EmailA)

(***************************************************************************)
(* C23: a verify-code request whose email is missing, whose code is        *)
(* missing, or whose email lacks "@" or lacks "." is answered              *)
(* success=false, writes no record and leaves no write pending, a valid    *)
(* code included.                                                          *)
(***************************************************************************)
C23_BadInputRejected ==
  [][ /\ \A s \in Slots :
        (Free(s) /\ res'.op = "verify-code") =>
          \A a \in ClientAddrs, email \in RequestEmails, code \in RequestCodes :
            ( /\ \/ email = NoString
                 \/ code = NoString
                 \/ ~Includes(email, "@")
                 \/ ~Includes(email, ".")
              /\ VerifyCode(s, a, email, code) )
              => /\ res'.success = FALSE
                 /\ users' = users
                 /\ inflight' = inflight
      /\ \A t \in Slots :
           inflight'[t].op = "verify-code" =>
             /\ inflight'[t].email # NoString
             /\ Includes(inflight'[t].email, "@") /\ Includes(inflight'[t].email, ".")
    ]_vars

\* an email without a dot has just been turned away, with records in the
\* store and the limiter's window not full
C23_Witness ==
  /\ res = CodeResponse(200, FALSE, "Invalid email format")
  /\ \E a \in SeqAddrs : hits[a] \in 2 .. max
  /\ \E e \in DOMAIN users : Granted(users, e)

(***************************************************************************)
(* C24: the handler of customer.subscription.deleted reads the record in   *)
(* one step and writes in a later one. The read writes nothing and picks   *)
(* the branch from the method it sees; a redemption that settles leaves    *)
(* the other handlers where they are; and the write of the subscriber      *)
(* branch sets isPro false and subscriptionStatus cancelled and keeps the  *)
(* method, whatever the method has become since the read. So a record      *)
(* with method secret_code and isPro false is reachable.                   *)
(***************************************************************************)
C24_DeletedReadThenWrite ==
  [][ /\ \A s \in Slots :
           WebhookFound(s, TRUE) =>
             /\ users' = users
             /\ inflight'[s].pc =
                  IF KeepsPro(users, inflight[s].email)
                    THEN "deleted_update_code" ELSE "deleted_update_stripe"
      /\ \A s \in Slots, ok \in BOOLEAN :
           VerifyCodeUpdated(s, ok) =>
             \A t \in Slots \ {s} : inflight'[t] = inflight[t]
      /\ \A s \in Slots :
           LET e == inflight[s].email
           IN ( /\ inflight[s].pc = "deleted_update_stripe"
                /\ WebhookUpdated(s, TRUE)
                /\ Found(users, e) )
                => /\ users'[e].isPro = FALSE
                   /\ users'[e].subscriptionStatus = "cancelled"
                   /\ users'[e].method = users[e].method
                   /\ users'[e].stripeCustomerId = users[e].stripeCustomerId
    ]_vars

\* a lifetime record that the subscriber branch has cancelled: the method
\* is secret_code, isPro is false, and the customer reference that the
\* lifetime branch would have removed is still there
C24_Witness ==
  /\ \A s \in Slots : inflight[s] = Idle
  /\ res = Received
  /\ \E e \in DOMAIN users :
       /\ users[e].method = "secret_code" /\ ~users[e].isPro
       /\ users[e].subscriptionStatus = "cancelled"
       /\ users[e].cancelledAt # NoDate
       /\ users[e].codeUsedAt # NoDate
       /\ users[e].stripeCustomerId # Null

(***************************************************************************)
(* C25: cancel-subscription checks the method only on the document its     *)
(* findOne read. A redemption that settles meanwhile leaves the handler    *)
(* pending; the handler then has the processor flag the subscription it    *)
(* read and writes subscriptionStatus cancelling, also onto a record       *)
(* whose method is secret_code when the write is applied.                  *)
(***************************************************************************)
C25_CancelNotTransactional ==
  [][ /\ \A s \in Slots :
           LET e == inflight[s].email
           IN CancelFound(s, TRUE) =>
                /\ users' = users /\ flagged' = flagged
                /\ inflight'[s] # Idle =>
                     /\ Found(users, e) /\ users[e].method # "secret_code"
                     /\ inflight'[s].pc = "stripe"
                     /\ inflight'[s].aux = users[e].subscriptionId
      /\ \A s \in Slots, ok \in BOOLEAN :
           VerifyCodeUpdated(s, ok) =>
             \A t \in Slots \ {s} :
               inflight[t].op = "cancel-subscription" => inflight'[t] = inflight[t]
      /\ \A s \in Slots :
           CancelStripe(s, TRUE) =>
             /\ inflight[s].aux \in flagged'
             /\ inflight'[s].op = "cancel-subscription" /\ inflight'[s].pc = "update"
             /\ users' = users
      /\ \A s \in Slots :
           LET e == inflight[s].email
           IN ( /\ CancelUpdated(s, TRUE)
                /\ Found(users, e) /\ users[e].method = "secret_code" )
                => /\ users'[e].subscriptionStatus = "cancelling"
                   /\ users'[e].method = "secret_code"
                   /\ res' = Cancelling(inflight[s].aux)
    ]_vars

\* the last response is the cancellation's success, the processor has
\* flagged the subscription, and the record it wrote cancelling onto was
\* redeemed before the write
C25_Witness ==
  /\ \A s \in Slots : inflight[s] = Idle
  /\ \E e \in DOMAIN users :
       /\ res = Cancelling(users[e].subscriptionId)
       /\ users[e].subscriptionId \in flagged
       /\ users[e].method = "secret_code"
       /\ users[e].codeUsedAt # NoDate
       /\ users[e].cancelRequestedAt >= users[e].codeUsedAt
       /\ users[e].subscriptionStatus = "cancelling"
       /\ users[e].cancelAtPeriodEnd = TRUE

(***************************************************************************)
(* C26: while the datastore handle is unset, every request and every       *)
(* verified event that needs the datastore is answered with an error       *)
(* (a status of 400 or more, or success=false) and no record changes.      *)
(***************************************************************************)
C26_UnconnectedIsRejected ==
  [][ LET Rejected(r) ==
            \/ r.status >= 400
            \/ "success" \in DOMAIN r /\ ~r.success
      IN db = "unset" =>
           /\ users' = users
           /\ \A s \in Slots, ev \in CheckoutEvents :
                (SessionEmail(ev) # NoString /\ Webhook(s, ev)) =>
                  /\ inflight'[s] = Idle
                  /\ Rejected(res')
           /\ \A s \in Slots :
                ( /\ WebhookRetrieved(s, TRUE)
                  /\ CustomerEmail(inflight[s].ev.customer) # NoString )
                  => /\ inflight'[s] = Idle
                     /\ Rejected(res')
           /\ \A s \in Slots, email \in RequestEmails \ {NoString} :
                CheckPro(s, email) =>
                  /\ inflight'[s] = Idle
                  /\ Rejected(res')
           /\ \A s \in Slots, a \in ClientAddrs, email \in RequestEmails,
                 code \in RequestCodes :
                VerifyCode(s, a, email, code) =>
                  /\ inflight'[s] = Idle
                  /\ Rejected(res')
           /\ \A s \in Slots, email \in RequestEmails :
                CancelSubscription(s, email) =>
                  /\ inflight'[s] = Idle
                  /\ Rejected(res')
    ]_vars

(***************************************************************************)
(* C27: every record has method stripe or secret_code: no record is ever   *)
(* removed, a record that appears is written by the upsert of a checkout,  *)
(* an invoice (method stripe) or a redemption (method secret_code), and no *)
(* step leaves a record without a method.                                  *)
(***************************************************************************)
C27_RecordsHaveMethod ==
  /\ [](\A e \in DOMAIN users :
          users[e].method # Null /\ users[e].method \in {"stripe", "secret_code"})
  /\ [][ /\ DOMAIN users \subseteq DOMAIN users'
         /\ \A e \in DOMAIN users' \ DOMAIN users :
              \E s \in Slots :
                /\ inflight[s].email = e /\ inflight'[s] = Idle
                /\ \/ /\ inflight[s].op = "webhook"
                      /\ inflight[s].pc \in {"checkout_update", "invoice_update"}
                      /\ users'[e].method = "stripe"
                   \/ /\ inflight[s].op = "verify-code" /\ inflight[s].pc = "update"
                      /\ users'[e].method = "secret_code"
         /\ \A e \in DOMAIN users : users'[e].method # Null
       ]_vars

\* a record a redemption created (it never held a payment) has been through
\* the $unset of the cancellation's lifetime branch and still has its method
C27_Witness ==
  /\ res = Received
  /\ \E e \in DOMAIN users :
       /\ users[e].method = "secret_code"
       /\ users[e].codeUsedAt # NoDate
       /\ users[e].lastPayment = NoDate
       /\ users[e].subscriptionStatus = "cancelled"
       /\ users[e].stripeCustomerId = Null /\ users[e].subscriptionId = Null

\* checkout.session.completed and customer.subscription.deleted for the
\* same email, delivered in both orders from the store of the current state
\* when the email has no record or a stripe record
Orders ==
  (\A s \in Slots : inflight[s] = Idle) =>
    \A checkout \in CheckoutEvents, deleted \in DeletedEvents :
      LET e == EventEmail(checkout)
      IN ( /\ e # NoString /\ EventEmail(deleted) = e
           /\ Found(users, e) => users[e].method = "stripe" ) =>
           \A t \in clock .. MaxClock :
             LET checkoutDeleted == Deliver(Deliver(users, checkout, clock), deleted, t)
                 deletedCheckout == Deliver(Deliver(users, deleted, clock), checkout, t)
                 redelivered     == Deliver(checkoutDeleted, checkout, MaxClock)
             IN /\ ~checkoutDeleted[e].isPro
                /\ deletedCheckout[e].isPro
                /\ redelivered[e].isPro
                /\ checkoutDeleted[e].method = "stripe"
                /\ deletedCheckout[e].method = "stripe"
                /\ checkoutDeleted # deletedCheckout

(***************************************************************************)
(* C28: for an email with a stripe record (or none), checkout followed by  *)
(* customer.subscription.deleted leaves isPro false, the same two events   *)
(* delivered in the opposite order leave isPro true, and so does a         *)
(* redelivery of the checkout after the deletion: the two events do not    *)
(* commute.                                                                *)
(***************************************************************************)
C28_OrderDecidesPro == [][DeliverSteps]_vars /\ []Orders

\* a subscriber's record after checkout, deletion and the checkout again:
\* cancelled, never redeemed, never invoiced or updated, and Pro
C28_Witness ==
  /\ res = Received
  /\ \A s \in Slots : inflight[s] = Idle
  /\ \E e \in DOMAIN users :
       /\ users[e].method = "stripe" /\ users[e].isPro
       /\ users[e].subscriptionStatus = "cancelled"
       /\ users[e].cancelledAt # NoDate
       /\ users[e].activatedAt >= users[e].cancelledAt
       /\ users[e].codeUsedAt = NoDate /\ users[e].lastPayment = NoDate

====
